---- MODULE Spec2Model ----
(***************************************************************************)
(* A model of the loose-object layer of codecrafters-git-rust              *)
(* (src/src/main.rs): the object codec (encode_object / decode_object),    *)
(* the compressed store (hash_git_object), the tree builder                *)
(* (read_tree_from_dir) and the staging index parser (read_index), and of  *)
(* the message padding of its SHA-1 (src/src/sha1.rs).                     *)
(*                                                                         *)
(* Bytes are integers 0..255, byte strings are sequences of bytes.  Every  *)
(* fallible call returns a record with a tag: "Ok", "Err" (a value of the  *)
(* function's error enum) or "Panic" (unimplemented!(), expect(), unwrap() *)
(* or an out-of-range slice: the thread unwinds, nothing is returned).     *)
(***************************************************************************)
EXTENDS Integers, Sequences, FiniteSets, TLC

VARIABLES
    \* object codec (encode_object, decode_object after decompression)
    origin, bytes, decoded,
    \* command entry points cat_file / ls_tree
    request, response,
    \* staging index parser
    index, parsed,
    \* compressed store: .git/objects/<2 hex>/<38 hex>
    dirs, files, prev, last, ncalls,
    \* tree builder
    fsys, stack, walk, skipped, events,
    \* SHA-1 padding
    input, padded, sha

codecVars == <<origin, bytes, decoded>>
cmdVars   == <<request, response>>
indexVars == <<index, parsed>>
storeVars == <<dirs, files>>
callVars  == <<prev, last, ncalls>>
walkVars  == <<fsys, stack, walk, skipped, events>>
shaVars   == <<input, padded, sha>>
vars == <<codecVars, cmdVars, indexVars, storeVars, callVars, walkVars, shaVars>>

(***************************************************************************)
(* Bounds of the model.                                                    *)
(***************************************************************************)
MaxEntries == 2     \* tree entries per encoded tree in the codec inputs
MaxBlobLen == 2     \* bytes of blob content
MaxCalls == 3       \* store calls (put / get) in one behaviour
NumBlobs == 2       \* distinct blobs put in the store
NumPrefixes == 2    \* distinct 2-hex-digit directory prefixes the digests fall in
MaxMsgLen == 130    \* bytes of a message given to sha1 (two blocks and a bit)

(***************************************************************************)
(* Results.                                                                *)
(***************************************************************************)
Ok(v) == [tag |-> "Ok", value |-> v]
Err(e) == [tag |-> "Err", error |-> e]
Panic(m) == [tag |-> "Panic", message |-> m]
None == [tag |-> "None"]

(***************************************************************************)
(* Byte strings.                                                           *)
(***************************************************************************)
NUL == 0
SP == 32
IsAsciiDigit(b) == b >= 48 /\ b <= 57
IsOctalDigit(b) == b >= 48 /\ b <= 55

Repeat(b, n) == [i \in 1..n |-> b]
Drop(s, n) == SubSeq(s, n + 1, Len(s))
Take(s, n) == SubSeq(s, 1, n)

\* iter().position(pred): index (from 1) of the first byte in P, 0 for None
PositionIn(s, P) ==
    LET I == {i \in 1..Len(s) : s[i] \in P}
    IN  IF I = {} THEN 0 ELSE CHOOSE i \in I : \A j \in I : i <= j

PositionNotIn(s, P) ==
    LET I == {i \in 1..Len(s) : s[i] \notin P}
    IN  IF I = {} THEN 0 ELSE CHOOSE i \in I : \A j \in I : i <= j

Digits == 48..57

\* Ord for byte strings (and for str: UTF-8 order is byte order)
RECURSIVE BytesLess(_, _)
BytesLess(a, b) ==
    IF b = <<>> THEN FALSE
    ELSE IF a = <<>> THEN TRUE
    ELSE IF a[1] # b[1] THEN a[1] < b[1]
    ELSE BytesLess(Tail(a), Tail(b))

BytesLeq(a, b) == a = b \/ BytesLess(a, b)

\* usize::to_string / format!("{}")
RECURSIVE Decimal(_)
Decimal(n) == IF n < 10 THEN <<48 + n>> ELSE Decimal(n \div 10) \o <<48 + (n % 10)>>

\* format!("{:o}")
RECURSIVE OctalStr(_)
OctalStr(n) == IF n < 8 THEN <<48 + n>> ELSE OctalStr(n \div 8) \o <<48 + (n % 8)>>

RECURSIVE StripZeros(_)
StripZeros(s) == IF s # <<>> /\ s[1] = 48 THEN StripZeros(Tail(s)) ELSE s

RECURSIVE DigitsValue(_, _)
DigitsValue(s, radix) ==
    IF s = <<>> THEN 0
    ELSE DigitsValue(Take(s, Len(s) - 1), radix) * radix + (s[Len(s)] - 48)

\* "18446744073709551615", u64::MAX
U64MaxDigits == <<49,56,52,52,54,55,52,52,48,55,51,55,48,57,53,53,49,54,49,53>>

\* str::parse::<u64> on a string of ASCII digits.  A value of ten digits or
\* more is past every buffer length of the model and is kept as 10^9.
ParseU64(s) ==
    LET t == StripZeros(s) IN
    IF s = <<>> THEN [ok |-> FALSE, value |-> 0]
    ELSE IF Len(t) > 20 \/ (Len(t) = 20 /\ BytesLess(U64MaxDigits, t))
         THEN [ok |-> FALSE, value |-> 0]
    ELSE IF Len(t) > 9 THEN [ok |-> TRUE, value |-> 1000000000]
    ELSE [ok |-> TRUE, value |-> DigitsValue(t, 10)]

\* std::str::from_utf8: one- and two-byte sequences (the model's inputs hold
\* no longer ones)
RECURSIVE IsUtf8(_)
IsUtf8(s) ==
    IF s = <<>> THEN TRUE
    ELSE IF s[1] < 128 THEN IsUtf8(Tail(s))
    ELSE IF s[1] >= 194 /\ s[1] <= 223 /\ Len(s) >= 2 /\ s[2] >= 128 /\ s[2] <= 191
         THEN IsUtf8(Drop(s, 2))
    ELSE FALSE

\* from_utf8 then u32::from_str_radix(_, 8): an optional '+', then at least
\* one octal digit, the value at most u32::MAX = 0o37777777777
ParseModeOctal(s) ==
    LET body == IF s # <<>> /\ s[1] = 43 THEN Tail(s) ELSE s
        t == StripZeros(body)
    IN  IF ~IsUtf8(s) \/ body = <<>> \/ \E i \in 1..Len(body) : ~IsOctalDigit(body[i])
        THEN [ok |-> FALSE, value |-> 0]
        ELSE IF Len(t) > 11 \/ (Len(t) = 11 /\ t[1] > 51)
        THEN [ok |-> FALSE, value |-> 0]
        ELSE [ok |-> TRUE, value |-> DigitsValue(t, 8)]

(***************************************************************************)
(* Objects.                                                                *)
(***************************************************************************)
Blob(data) == [kind |-> "Blob", data |-> data]
Tree(entries) == [kind |-> "Tree", entries |-> entries]
Commit == [kind |-> "Commit"]
Tag == [kind |-> "Tag"]
TreeEntry(mode, name, hash) == [mode |-> mode, name |-> name, object_hash |-> hash]

KindBlob == <<98, 108, 111, 98>>
KindTree == <<116, 114, 101, 101>>
KindCommit == <<99, 111, 109, 109, 105, 116>>
KindTag == <<116, 97, 103>>

\* format!("{:o} {}", entry.mode, entry.name)
EntryText(e) == OctalStr(e.mode) \o <<SP>> \o e.name

RECURSIVE SumLen(_)
SumLen(ss) == IF ss = <<>> THEN 0 ELSE Len(ss[1]) + SumLen(Tail(ss))

RECURSIVE Concat(_)
Concat(ss) == IF ss = <<>> THEN <<>> ELSE ss[1] \o Concat(Tail(ss))

encode_blob(blob) == KindBlob \o <<SP>> \o Decimal(Len(blob)) \o <<NUL>> \o blob

encode_tree(entries) ==
    LET size == 21 * Len(entries) + SumLen([i \in 1..Len(entries) |-> EntryText(entries[i])])
    IN  KindTree \o <<SP>> \o Decimal(size) \o <<NUL>>
        \o Concat([i \in 1..Len(entries) |->
                     EntryText(entries[i]) \o <<NUL>> \o entries[i].object_hash])

encode_object(object) ==
    CASE object.kind = "Blob" -> Ok(encode_blob(object.data))
      [] object.kind = "Tree" -> Ok(encode_tree(object.entries))
      [] OTHER -> Panic("not implemented")

(***************************************************************************)
(* decode_object, from the decompressed bytes on (main.rs 324-424).        *)
(***************************************************************************)
\* the loop of the "tree" arm; rest is the payload left, acc the entries pushed
RECURSIVE DecodeTreeEntries(_, _)
DecodeTreeEntries(rest, acc) ==
    LET space_idx == PositionIn(rest, {SP}) IN
    IF space_idx = 0 THEN Err("CorruptedTreeEntry")
    ELSE
    LET mode == ParseModeOctal(Take(rest, space_idx - 1))
        rest1 == Drop(rest, space_idx)
        null_byte_idx == PositionIn(rest1, {NUL})
    IN
    IF ~mode.ok THEN Err("TreeEntryMode")
    ELSE IF null_byte_idx = 0 THEN Err("CorruptedTreeEntry")
    ELSE
    LET name == Take(rest1, null_byte_idx - 1)
        rest2 == Drop(rest1, null_byte_idx)
    IN
    IF ~IsUtf8(name) THEN Err("TreeEntryName")
    ELSE IF Len(rest2) < 20 THEN Err("CorruptedTreeEntrySha1")
    ELSE
    LET pushed == Append(acc, TreeEntry(mode.value, name, Take(rest2, 20))) IN
    IF Len(rest2) > 20 THEN DecodeTreeEntries(Drop(rest2, 20), pushed)
    ELSE Ok(Tree(pushed))

\* the match on object_type (main.rs 363-424)
DecodeKind(object_type, payload) ==
    CASE object_type = KindBlob -> Ok(Blob(payload))
      [] object_type = KindCommit -> Panic("not implemented")
      [] object_type = KindTag -> Panic("not implemented")
      [] object_type = KindTree -> DecodeTreeEntries(payload, <<>>)
      [] OTHER -> Err("UnknownObjectKind")

\* the size field: rest[..null_byte_idx] parsed with expect() (main.rs 352-356)
ParseSizeField(digits) ==
    LET p == ParseU64(digits) IN
    IF p.ok THEN Ok(p.value)
    ELSE Panic("all bytes were checked to be ascii digits")

DecodeBytes(file_content_bytes) ==
    IF Len(file_content_bytes) <= 1 THEN Err("CorruptedObject: too short")
    ELSE
    LET space_idx == PositionIn(file_content_bytes, {SP}) IN
    IF space_idx = 0 THEN Err("CorruptedObject: no space")
    ELSE
    LET object_type == Take(file_content_bytes, space_idx - 1)
        rest == Drop(file_content_bytes, space_idx)
        null_byte_idx == PositionNotIn(rest, Digits)
    IN
    IF null_byte_idx = 0 THEN Err("CorruptedObject: only ascii digits???")
    ELSE IF rest[null_byte_idx] # NUL
         THEN Err("CorruptedObject: byte after digits isn't null")
    ELSE
    LET size == ParseSizeField(Take(rest, null_byte_idx - 1))
        rest1 == Drop(rest, null_byte_idx)
    IN
    IF size.tag # "Ok" THEN size
    ELSE IF size.value > Len(rest1) THEN Err("InvalidObjectSize")
    ELSE DecodeKind(object_type, Take(rest1, size.value))

\* Each decoded TreeEntry borrows its object_hash from file_content_bytes
\* (main.rs 406-411), a local Vec that is freed when decode_object returns:
\* the caller reads the 20 bytes as they were, or whatever the allocator has
\* put there since.
Returned(result) ==
    IF result.tag = "Ok" /\ result.value.kind = "Tree" /\ result.value.entries # <<>>
    THEN LET es == result.value.entries IN
         {Ok(Tree([i \in 1..Len(es) |->
                     TreeEntry(es[i].mode, es[i].name, IF reused THEN Repeat(221, 20)
                                                       ELSE es[i].object_hash)]))
            : reused \in BOOLEAN}
    ELSE {result}

(***************************************************************************)
(* The codec on its own: an object is encoded, or a stored byte string is  *)
(* taken as it is, and the bytes are decoded.                              *)
(***************************************************************************)
EntryModes == {33188, 16384}                      \* 0o100644, 0o40000
EntryNames == {<<97>>, <<97, 32, 98>>, <<98>>}    \* "a", "a b", "b"
EntryHashes == {Repeat(0, 20), Repeat(32, 20)}
CodecEntries ==
    {TreeEntry(m, n, h) : m \in EntryModes, n \in EntryNames, h \in EntryHashes}

SortedByName(es) == \A i \in 1..(Len(es) - 1) : BytesLeq(es[i].name, es[i + 1].name)

SortedEntryLists ==
    UNION {{es \in [1..n -> CodecEntries] : SortedByName(es)} : n \in 0..MaxEntries}

ContentBytes == {0, 32, 65}
BlobContents == UNION {[1..n -> ContentBytes] : n \in 0..MaxBlobLen}

RawKinds == {KindBlob, KindTree, KindCommit, KindTag, <<98, 108, 117, 98>>}
RawSizes ==
    { <<>>, <<49>>, <<50>>, <<120>>, <<49, 120>>, <<48, 49>>, U64MaxDigits,
      Take(U64MaxDigits, 19) \o <<54>>, Repeat(57, 21) }
RawPayloads == {<<>>, <<65>>, <<65, 66>>}

CodecInputs ==
    {[src |-> "tree", entries |-> es] : es \in SortedEntryLists}
    \cup {[src |-> "blob", data |-> d] : d \in BlobContents}
    \cup {[src |-> "raw", kind |-> k, size |-> z, nul |-> t, payload |-> p] :
            k \in RawKinds, z \in RawSizes, t \in BOOLEAN, p \in RawPayloads}

RawBytes(o) ==
    o.kind \o <<SP>> \o o.size \o (IF o.nul THEN <<NUL>> ELSE <<>>) \o o.payload

Encode ==
    /\ origin.src \in {"tree", "blob"}
    /\ bytes = <<>>
    /\ bytes' = encode_object(IF origin.src = "tree" THEN Tree(origin.entries)
                                                     ELSE Blob(origin.data)).value
    /\ UNCHANGED <<origin, decoded>>

Stored ==
    /\ origin.src = "raw"
    /\ bytes = <<>>
    /\ bytes' = RawBytes(origin)
    /\ UNCHANGED <<origin, decoded>>

Decode ==
    /\ bytes # <<>>
    /\ decoded.tag = "None"
    /\ decoded' \in Returned(DecodeBytes(bytes))
    /\ UNCHANGED <<origin, bytes>>

(***************************************************************************)
(* The object directory.  files maps a path <<dirname, filename>> under    *)
(* .git/objects to the file there; a file is the byte string handed to the *)
(* zlib encoder and whether the compressed stream was written to its end.  *)
(***************************************************************************)
File(data, complete) == [data |-> data, complete |-> complete]
NoFiles == [q \in {} |-> File(<<>>, FALSE)]

\* ZlibDecoder::read_to_end (main.rs 319-322): a finished stream inflates to
\* the bytes that were deflated, a cut one to a proper prefix of them
Inflate(file) ==
    IF file.complete THEN {file.data}
    ELSE {Take(file.data, k) : k \in 0..(Len(file.data) - 1)}

\* File::open and everything after it (main.rs 317-424)
ReadObject(path, fs) ==
    IF path \notin DOMAIN fs THEN {Err("Io: NotFound")}
    ELSE UNION {Returned(DecodeBytes(content)) : content \in Inflate(fs[path])}

\* String::make_ascii_lowercase
Lowercase(str) == [i \in 1..Len(str) |-> IF str[i] >= 65 /\ str[i] <= 90 THEN str[i] + 32
                                          ELSE str[i]]

IsHexChar(c) == (c >= 48 /\ c <= 57) \/ (c >= 97 /\ c <= 102) \/ (c >= 65 /\ c <= 70)

\* hex::decode (main.rs 312), for its verdict only
HexDecode(str) ==
    IF Len(str) % 2 # 0 THEN Err("InvalidHash: OddLength")
    ELSE IF \E i \in 1..Len(str) : ~IsHexChar(str[i])
         THEN Err("InvalidHash: InvalidHexCharacter")
    ELSE Ok(Len(str) \div 2)

\* decode_object (main.rs 309-425): the results it can return, each with
\* whether it got as far as opening a file of the store
decode_object(sha1_arg, fs) ==
    LET sha1 == Lowercase(sha1_arg)
        checked == HexDecode(sha1)
    IN  IF checked.tag # "Ok" THEN {[res |-> checked, opened |-> FALSE]}
        ELSE IF Len(sha1) < 2
             THEN {[res |-> Panic("byte index 2 is out of bounds"), opened |-> FALSE]}
        ELSE {[res |-> r, opened |-> TRUE] :
                r \in ReadObject(<<Take(sha1, 2), Drop(sha1, 2)>>, fs)}

\* cat_file (main.rs 104-124)
cat_file(object, pretty_print, fs) ==
    IF Len(object) # 40
    THEN {[res |-> Err("InvalidObjectName"), opened |-> FALSE]}
    ELSE IF ~pretty_print
    THEN {[res |-> Err("MustUsePrettyPrint"), opened |-> FALSE]}
    ELSE {[res |-> IF d.res.tag # "Ok" THEN d.res
                   ELSE IF d.res.value.kind = "Blob" THEN Ok(d.res.value.data)
                   ELSE Panic("not implemented"),
           opened |-> d.opened] : d \in decode_object(object, fs)}

\* ls_tree (main.rs 439-454)
ls_tree(object, name_only, fs) ==
    IF ~name_only
    THEN {[res |-> Err("MustUseNameOnly"), opened |-> FALSE]}
    ELSE {[res |-> IF d.res.tag # "Ok" THEN d.res
                   ELSE IF d.res.value.kind # "Tree" THEN Err("NotATree")
                   ELSE Ok([i \in 1..Len(d.res.value.entries) |->
                              d.res.value.entries[i].name]),
           opened |-> d.opened] : d \in decode_object(object, fs)}

MaxNameLen == 42    \* longest object name given on the command line

\* object names: one character repeated, with at most one character replaced
\* by 'g'
NameLens == (0..4) \cup (38..MaxNameLen)
ObjectNames ==
    {[i \in 1..n |-> IF i = bad THEN 103 ELSE c] :
        c \in {97, 65, 48}, n \in NameLens, bad \in {0, 1, 2, 40}}

\* a store holding blob "A" at aa/aaa... and a one-entry tree at 00/000...
CmdStore ==
    (<<Repeat(97, 2), Repeat(97, 38)>> :> File(encode_blob(<<65>>), TRUE))
    @@ (<<Repeat(48, 2), Repeat(48, 38)>> :>
          File(encode_tree(<<TreeEntry(33188, <<97>>, Repeat(7, 20))>>), TRUE))

CatFile ==
    /\ request.cmd = "cat-file"
    /\ response.tag = "None"
    /\ \E r \in cat_file(request.object, request.flag, files) :
          response' = [tag |-> "Done", res |-> r.res, opened |-> r.opened]
    /\ UNCHANGED <<request, files, dirs>>

LsTree ==
    /\ request.cmd = "ls-tree"
    /\ response.tag = "None"
    /\ \E r \in ls_tree(request.object, request.flag, files) :
          response' = [tag |-> "Done", res |-> r.res, opened |-> r.opened]
    /\ UNCHANGED <<request, files, dirs>>

(***************************************************************************)
(* The compressed store.  sha1 is kept collision-free: a digest is the     *)
(* hashed byte string itself, under the two hex digits it starts with.     *)
(***************************************************************************)
\* sha1::sha1 and hex::encode (main.rs 169-170)
Sha1(encoded) == [prefix |-> Len(encoded) % NumPrefixes, rest |-> encoded]

\* .git/objects/{sha1_str[0..2]}/{sha1_str[2..]} (main.rs 173-174, 187)
ObjectPath(digest) == <<digest.prefix, digest.rest>>

\* filename.exists() (main.rs 188)
FileNeverExists(path, fs) == FALSE

FileExists(path, fs) == path \in DOMAIN fs

\* the I/O calls hash_git_object makes for these bytes in this store, in
\* order; each but the last can fail with an error the function returns, a
\* failure of the last (the encoder's drop, which ends the stream) is dropped
IoSteps(encoded, write, ds, fs) ==
    LET digest == Sha1(encoded) IN
    IF ~write THEN {}
    ELSE {"try_exists"}
         \cup (IF digest.prefix \notin ds THEN {"create_dir"} ELSE {})
         \cup (IF FileExists(ObjectPath(digest), fs) THEN {}
               ELSE {"create", "write_all", "finish"})

\* hash_git_object (main.rs 165-212) on the bytes encode_object gave, with
\* the I/O call `fault` failing ("none": none does): the result, the store
\* it leaves, and whether it found the file there
hash_git_object(encoded, write, ds, fs, fault) ==
    LET digest == Sha1(encoded)
        path == ObjectPath(digest)
        ds1 == ds \cup {digest.prefix}
        out(res, d, f, existed) == [res |-> res, dirs |-> d, files |-> f, existed |-> existed]
    IN
    IF ~write THEN out(Ok(digest), ds, fs, FALSE)
    ELSE IF fault = "try_exists" THEN out(Err("OutputIo: try_exists"), ds, fs, FALSE)
    ELSE IF digest.prefix \notin ds /\ fault = "create_dir"
         THEN out(Err("OutputIo: create_dir"), ds, fs, FALSE)
    ELSE IF FileExists(path, fs) THEN out(Ok(digest), ds1, fs, TRUE)
    ELSE IF fault = "create" THEN out(Err("OutputIo: create"), ds1, fs, FALSE)
    ELSE IF fault = "write_all"
         THEN out(Err("OutputIo: write_all"), ds1,
                  [q \in DOMAIN fs \cup {path} |->
                     IF q = path THEN File(encoded, FALSE) ELSE fs[q]], FALSE)
    ELSE out(Ok(digest), ds1,
             [q \in DOMAIN fs \cup {path} |->
                IF q = path THEN File(encoded, fault # "finish") ELSE fs[q]], FALSE)

(***************************************************************************)
(* Puts and gets on one store.                                             *)
(***************************************************************************)
Letters == <<65, 66, 67, 68, 69, 70, 71, 72>>
StoreBlobs == {Blob(Take(Letters, n)) : n \in 1..NumBlobs}
StoreObjects == StoreBlobs \cup {Tree(<<>>)}

Encoded(object) == encode_object(object).value

Put ==
    /\ ncalls < MaxCalls
    /\ \E object \in StoreObjects, write \in BOOLEAN :
       \E fault \in {"none"} \cup IoSteps(Encoded(object), write, dirs, files) :
          LET r == hash_git_object(Encoded(object), write, dirs, files, fault) IN
          /\ dirs' = r.dirs
          /\ files' = r.files
          /\ last' = [op |-> "put", object |-> object, write |-> write, fault |-> fault,
                      res |-> r.res, existed |-> r.existed,
                      dirs |-> r.dirs, files |-> r.files]
    /\ prev' = last
    /\ ncalls' = ncalls + 1

\* decode_object(hex::encode(digest)): the name is 40 hex characters
Get ==
    /\ ncalls < MaxCalls
    /\ \E object \in StoreObjects :
       \E r \in ReadObject(ObjectPath(Sha1(Encoded(object))), files) :
          last' = [op |-> "get", object |-> object, write |-> FALSE, fault |-> "none",
                   res |-> r, existed |-> FALSE, dirs |-> dirs, files |-> files]
    /\ prev' = last
    /\ ncalls' = ncalls + 1
    /\ UNCHANGED <<dirs, files>>

NoCall == [op |-> "none", object |-> Blob(<<>>), write |-> FALSE, fault |-> "none",
           res |-> None, existed |-> FALSE, dirs |-> {}, files |-> NoFiles]


(***************************************************************************)
(* The tree builder, read_tree_from_dir (main.rs 493-543), one directory   *)
(* entry per step.  The working directory is fsys: a path (the sequence of *)
(* names from the root) to the file or directory there.  The objects it    *)
(* writes are kept by their framing: kind, size and payload, a tree's      *)
(* payload being its entries with the digests they refer to.               *)
(***************************************************************************)
\* encode_blob, by fields
FrameBlob(data) == <<[frame |-> "blob", size |-> Len(data), payload |-> data]>>

\* encode_tree, by fields
FrameTree(entries) ==
    <<[frame |-> "tree",
       size |-> 21 * Len(entries)
                + SumLen([i \in 1..Len(entries) |-> EntryText(entries[i])])]>>
    \o entries

FileNode(mode, content) == [kind |-> "file", mode |-> mode, content |-> content]
DirNode(mode) == [kind |-> "dir", mode |-> mode, content |-> <<>>]

NameA == <<97>>
NameB == <<98>>
NameC == <<99>>
NameD == <<100>>
NameGit == <<46, 103, 105, 116>>     \* ".git"
NameBad == <<255>>                   \* not UTF-8

\* every file and directory a working directory of the model may hold;
\* a/ and d/a hold the same bytes
AllNodes ==
    (<<>> :> DirNode(16877))
    @@ (<<NameA>> :> FileNode(33188, <<65>>))
    @@ (<<NameB>> :> FileNode(33261, <<65, 66>>))
    @@ (<<NameD>> :> DirNode(16877))
    @@ (<<NameD, NameA>> :> FileNode(33188, <<65>>))
    @@ (<<NameD, NameC>> :> FileNode(33188, <<67>>))
    @@ (<<NameGit>> :> DirNode(16877))
    @@ (<<NameBad>> :> FileNode(33188, <<66>>))

WorkDirs ==
    {[q \in P |-> AllNodes[q]] :
        P \in {P \in SUBSET DOMAIN AllNodes :
                 /\ <<>> \in P
                 /\ \A q \in P : q # <<>> => Take(q, Len(q) - 1) \in P}}

ChildNames(path) ==
    {q[Len(q)] : q \in {q \in DOMAIN fsys : Len(q) = Len(path) + 1
                                             /\ Take(q, Len(path)) = path}}

\* entries.sort_by_key(|e| e.name.clone()): a stable sort (main.rs 534)
RECURSIVE InsertByName(_, _)
InsertByName(sorted, e) ==
    IF sorted = <<>> THEN <<e>>
    ELSE IF BytesLess(e.name, sorted[Len(sorted)].name)
         THEN Append(InsertByName(Take(sorted, Len(sorted) - 1), e), sorted[Len(sorted)])
    ELSE Append(sorted, e)

RECURSIVE SortedByKey(_)
SortedByKey(entries) ==
    IF entries = <<>> THEN <<>>
    ELSE InsertByName(SortedByKey(Take(entries, Len(entries) - 1)), entries[Len(entries)])

Unsorted(entries) == entries

\* the entries as encoded (main.rs 534-535)
SortEntries(entries) == SortedByKey(entries)

\* hash_object(path, true) (main.rs 518)
PersistNothing == FALSE

PersistChildren == TRUE

Frame(path) == [path |-> path, remaining |-> ChildNames(path), entries |-> <<>>]
Top == stack[Len(stack)]
Running == [tag |-> "Running"]

WithTop(f) == [stack EXCEPT ![Len(stack)] = f]
Consumed(n) == [Top EXCEPT !.remaining = @ \ {n}]

Abort(result, event) ==
    /\ walk' = result
    /\ stack' = <<>>
    /\ events' = events \cup {event}
    /\ UNCHANGED <<fsys, skipped>>

\* write_tree: read_tree_from_dir("."), fs::read_dir succeeds (main.rs 479, 496)
OpenRoot ==
    /\ walk.tag = "None"
    /\ walk' = Running
    /\ stack' = <<Frame(<<>>)>>
    /\ UNCHANGED <<fsys, skipped, events, dirs, files>>

\* fs::read_dir(".") fails
OpenRootFails ==
    /\ walk.tag = "None"
    /\ walk' = Err("Io: read_dir")
    /\ events' = events \cup {"root_read_dir"}
    /\ UNCHANGED <<fsys, stack, skipped, dirs, files>>

\* the iterator yields Err for an entry: logged and skipped (main.rs 498-504)
EntryError ==
    /\ walk = Running
    /\ \E n \in Top.remaining :
          /\ stack' = WithTop(Consumed(n))
          /\ skipped' = skipped \cup {Append(Top.path, n)}
    /\ events' = events \cup {"entry_error"}
    /\ UNCHANGED <<fsys, walk, dirs, files>>

\* file_name.to_str().unwrap() (main.rs 512)
EntryNotUtf8 ==
    /\ walk = Running
    /\ \E n \in Top.remaining : ~IsUtf8(n)
    /\ Abort(Panic("called Option::unwrap() on a None value"), "name_not_utf8")
    /\ UNCHANGED <<dirs, files>>

\* file_name.starts_with('.') (main.rs 513-515)
EntryHidden ==
    /\ walk = Running
    /\ \E n \in Top.remaining :
          /\ IsUtf8(n) /\ n[1] = 46
          /\ stack' = WithTop(Consumed(n))
    /\ events' = events \cup {"hidden"}
    /\ UNCHANGED <<fsys, walk, skipped, dirs, files>>

Visible(n) == IsUtf8(n) /\ n[1] # 46

\* path.is_file(): hash_object(path, true), fs::read fails (main.rs 155-158)
FileReadFails ==
    /\ walk = Running
    /\ \E n \in Top.remaining :
          Visible(n) /\ fsys[Append(Top.path, n)].kind = "file"
    /\ Abort(Err("HashObject: InputIo"), "child_read")
    /\ UNCHANGED <<dirs, files>>

\* path.is_file(): hash_object(path, true) and the push (main.rs 517-523)
VisitFile ==
    /\ walk = Running
    /\ \E n \in Top.remaining :
          LET node == fsys[Append(Top.path, n)]
              encoded == FrameBlob(node.content)
          IN
          /\ Visible(n) /\ node.kind = "file"
          /\ \E fault \in {"none"} \cup IoSteps(encoded, PersistChildren, dirs, files) :
                LET r == hash_git_object(encoded, PersistChildren, dirs, files, fault) IN
                /\ dirs' = r.dirs
                /\ files' = r.files
                /\ IF r.res.tag = "Ok"
                   THEN /\ stack' = WithTop([Consumed(n) EXCEPT !.entries =
                                        Append(@, TreeEntry(node.mode, n, r.res.value))])
                        /\ UNCHANGED <<walk, events>>
                   ELSE /\ walk' = Err(<<"HashObject", r.res.error>>)
                        /\ stack' = <<>>
                        /\ events' = events \cup {"store"}
    /\ UNCHANGED <<fsys, skipped>>

\* not a file: read_tree_from_dir(path), fs::read_dir fails (main.rs 525, 496)
SubdirReadFails ==
    /\ walk = Running
    /\ \E n \in Top.remaining :
          Visible(n) /\ fsys[Append(Top.path, n)].kind = "dir"
    /\ Abort(Err("Io: read_dir"), "child_read_dir")
    /\ UNCHANGED <<dirs, files>>

\* not a file: read_tree_from_dir(path) starts on the subdirectory
EnterSubdir ==
    /\ walk = Running
    /\ \E n \in Top.remaining :
          /\ Visible(n) /\ fsys[Append(Top.path, n)].kind = "dir"
          /\ stack' = Append(WithTop(Consumed(n)), Frame(Append(Top.path, n)))
    /\ UNCHANGED <<fsys, walk, skipped, events, dirs, files>>

\* the entries are exhausted: sort, hash_git_object(Tree, true), return to
\* the caller, which pushes the subtree's entry (main.rs 534-542, 526-530)
CloseDir ==
    /\ walk = Running
    /\ Top.remaining = {}
    /\ LET sorted == SortEntries(Top.entries)
           encoded == FrameTree(sorted)
           name == Top.path[Len(Top.path)]
           mode == fsys[Top.path].mode
       IN
       \E fault \in {"none"} \cup IoSteps(encoded, TRUE, dirs, files) :
          LET r == hash_git_object(encoded, TRUE, dirs, files, fault) IN
          /\ dirs' = r.dirs
          /\ files' = r.files
          /\ IF r.res.tag # "Ok"
             THEN /\ walk' = Err(<<"HashObject", r.res.error>>)
                  /\ stack' = <<>>
                  /\ events' = events \cup {"store"}
             ELSE /\ events' = events \cup (IF sorted # Top.entries THEN {"reordered"} ELSE {})
                  /\ IF Len(stack) = 1
                     THEN /\ walk' = Ok([hash |-> r.res.value, mode |-> mode,
                                         entries |-> sorted])
                          /\ stack' = <<>>
                     ELSE /\ stack' = [i \in 1..(Len(stack) - 1) |->
                                         IF i = Len(stack) - 1
                                         THEN [stack[i] EXCEPT !.entries =
                                                 Append(@, TreeEntry(mode, name, r.res.value))]
                                         ELSE stack[i]]
                          /\ UNCHANGED walk
    /\ UNCHANGED <<fsys, skipped>>

(***************************************************************************)
(* The staging index parser, read_index (main.rs 598-674).                 *)
(***************************************************************************)
MaxDeclared == 2        \* entry count declared in the header
MaxIndexEntries == 2    \* entries written after the header

HeaderLen == 12
ChecksumLen == 20
FieldsLen == 62

\* a big-endian u32 / u16 field (the model's values stay below 2^31)
U32BE(b) == ((b[1] * 256 + b[2]) * 256 + b[3]) * 256 + b[4]
U16BE(b) == b[1] * 256 + b[2]
BE32(n) == <<(n \div 16777216) % 256, (n \div 65536) % 256, (n \div 256) % 256, n % 256>>

Signature == <<68, 73, 82, 67>>      \* "DIRC"

\* ((62 + path_len + 8) / 8) * 8 (main.rs 659)
EntryStride(path_len) == ((FieldsLen + path_len + 8) \div 8) * 8

\* one IndexEntry from its 62 bytes of fields and its path (main.rs 641-657)
IndexEntry(fields, path) ==
    [ctime_s |-> U32BE(SubSeq(fields, 1, 4)),   ctime_n |-> U32BE(SubSeq(fields, 5, 8)),
     mtime_s |-> U32BE(SubSeq(fields, 9, 12)),  mtime_n |-> U32BE(SubSeq(fields, 13, 16)),
     dev |-> U32BE(SubSeq(fields, 17, 20)),     ino |-> U32BE(SubSeq(fields, 21, 24)),
     mode |-> U32BE(SubSeq(fields, 25, 28)),    uid |-> U32BE(SubSeq(fields, 29, 32)),
     gid |-> U32BE(SubSeq(fields, 33, 36)),     size |-> U32BE(SubSeq(fields, 37, 40)),
     sha1 |-> SubSeq(fields, 41, 60),           flags |-> U16BE(SubSeq(fields, 61, 62)),
     path |-> path]

\* the while loop (main.rs 623-660): idx stays 0, entries_bytes is re-sliced
RECURSIVE ParseEntries(_, _)
ParseEntries(entries_bytes, entries) ==
    IF ~(FieldsLen < Len(entries_bytes)) THEN [res |-> Ok(entries), entries |-> entries]
    ELSE
    LET fields == Take(entries_bytes, FieldsLen)
        null_byte_idx == PositionIn(Drop(entries_bytes, FieldsLen), {NUL})
        path == SubSeq(entries_bytes, FieldsLen + 1, FieldsLen + null_byte_idx - 1)
        pushed == Append(entries, IndexEntry(fields, path))
    IN
    IF null_byte_idx = 0 THEN [res |-> Err("NoIndexEntryPath"), entries |-> entries]
    ELSE IF ~IsUtf8(path) THEN [res |-> Err("CorruptedPath"), entries |-> entries]
    ELSE IF EntryStride(Len(path)) > Len(entries_bytes)
         THEN [res |-> Panic("range start index out of range for slice"),
               entries |-> pushed]
    ELSE ParseEntries(Drop(entries_bytes, EntryStride(Len(path))), pushed)

\* read_index on the bytes of .git/index; `checked` is whether the build
\* checks integer overflow (index.len() - 20, main.rs 602).  The result and
\* the entries pushed when it was reached.
read_index(file, checked) ==
    LET out(res, entries) == [res |-> res, entries |-> entries] IN
    IF Len(file) < ChecksumLen
    THEN IF checked THEN out(Panic("attempt to subtract with overflow"), <<>>)
         ELSE out(Err("NoIndexHash"), <<>>)
    ELSE
    LET sha1 == Drop(file, Len(file) - ChecksumLen)
        header == Take(file, HeaderLen)
        signature == SubSeq(header, 1, 4)
        version == U32BE(SubSeq(header, 5, 8))
        num_entries == U32BE(SubSeq(header, 9, 12))
    IN
    IF signature # Signature THEN out(Err("InvalidSignature"), <<>>)
    ELSE IF HeaderLen > Len(file) - ChecksumLen THEN out(Err("NoIndexEntries"), <<>>)
    ELSE
    LET loop == ParseEntries(SubSeq(file, HeaderLen + 1, Len(file) - ChecksumLen), <<>>) IN
    IF loop.res.tag # "Ok" THEN loop
    ELSE IF Len(loop.entries) # num_entries
         THEN out(Err([kind |-> "MissingEntries", expected |-> num_entries,
                       got |-> Len(loop.entries)]), loop.entries)
    ELSE out(Ok([sha1 |-> sha1, version |-> version, entries |-> loop.entries]),
             loop.entries)

\* index files: a header, entries padded to 8 bytes, bytes that follow them
\* (an extension, say), the checksum; with the entries' last bytes cut off
\* (cut), or the whole file cut to its first bytes (keep)
IndexPaths == {<<97>>, <<97, 98>>}           \* "a", "ab"
IndexFields(path) ==
    Repeat(0, 24) \o BE32(33188) \o Repeat(0, 12) \o Repeat(7, 20) \o <<0, Len(path)>>
EntryBytes(path) ==
    IndexFields(path) \o path \o Repeat(NUL, EntryStride(Len(path)) - FieldsLen - Len(path))
Trailers ==
    { <<>>, Repeat(NUL, 8), <<84, 82, 69, 69>> \o Repeat(1, 60), Repeat(NUL, 64),
      <<84, 82, 69, 69>> \o Repeat(1, 60) \o Repeat(NUL, 8) }

IndexBytes(d) ==
    LET body == d.signature \o BE32(2) \o BE32(d.declared)
                \o Concat([i \in 1..Len(d.paths) |-> EntryBytes(d.paths[i])])
                \o d.trailer
        whole == Take(body, Len(body) - d.cut) \o Repeat(9, ChecksumLen)
    IN  IF d.keep = 0 THEN whole ELSE Take(whole, d.keep)

IndexFiles ==
    {d \in [signature : {Signature, <<68, 73, 82, 88>>}, declared : 0..MaxDeclared,
            paths : UNION {[1..k -> IndexPaths] : k \in 0..MaxIndexEntries},
            trailer : Trailers, cut : {0, 4}, keep : {0}] :
        d.cut = 0 \/ Len(d.paths) + Len(d.trailer) > 0}
    \cup
    [signature : {Signature}, declared : {0}, paths : {<<>>}, trailer : {<<>>},
     cut : {0}, keep : {10, 19, 20, 31}]

ReadIndex ==
    /\ parsed.tag = "None"
    /\ \E checked \in BOOLEAN :
          LET r == read_index(IndexBytes(index), checked) IN
          parsed' = [tag |-> "Done", res |-> r.res, got |-> Len(r.entries)]
    /\ UNCHANGED index

(***************************************************************************)
(* SHA-1 message padding (src/src/sha1.rs, sha1, lines 7-30).              *)
(*                                                                         *)
(* input is the data argument, padded the local Vec built from it, sha    *)
(* the position in the function and its locals.  usize is 64 bits wide;   *)
(* the lengths here are far below the width, so len * 8 does not wrap.    *)
(***************************************************************************)
Marker == 128
BlockBits == 512
LengthOffsetBits == 448
UsizeBytes == 8
WordBytes == 4
ChunkWords == 16

\* i64 division, which truncates towards zero
TruncDiv(a, b) == IF a >= 0 THEN a \div b ELSE -((-a) \div b)

\* usize::to_be_bytes: the w low-order bytes of v, most significant first
RECURSIVE to_be_bytes(_, _)
to_be_bytes(v, w) ==
    IF w = 0 THEN <<>> ELSE Append(to_be_bytes(v \div 256, w - 1), v % 256)

\* lines 12-15, with the wrap-around branch left out
padding_without_wrap(message_len_in_bits) ==
    LengthOffsetBits - ((message_len_in_bits + 1) % BlockBits)

\* lines 12-15: bits from the marker bit up to the 448-bit boundary
padding_needed(message_len_in_bits) ==
    LET first == LengthOffsetBits - ((message_len_in_bits + 1) % BlockBits) IN
    IF first < 0
    THEN (BlockBits - ((message_len_in_bits + 1) % BlockBits)) + LengthOffsetBits
    ELSE first

FillBytes == {0, 97, 128}
Messages == {Repeat(b, n) : b \in FillBytes, n \in 0..MaxMsgLen}

ShaStart == [pc |-> "start"]

\* lines 7-10: copy the message, take its length in bits, push 0x80
PushMarker ==
    /\ sha.pc = "start"
    /\ padded' = Append(input, Marker)
    /\ sha' = [pc |-> "pushed", message_len_in_bits |-> Len(input) * 8]
    /\ UNCHANGED input

\* lines 12-18: padding_needed, less the 7 bits pushed with the marker; the
\* debug_assert_eq! panics in a build with debug assertions only
PaddingNeeded ==
    /\ sha.pc = "pushed"
    /\ \E debug_assertions \in BOOLEAN :
          LET needed == padding_needed(sha.message_len_in_bits) - 7 IN
          sha' = [sha EXCEPT !.pc = IF debug_assertions /\ needed % 8 # 0
                                    THEN "panic" ELSE "sized"]
                   @@ [padding_needed |-> needed]
    /\ UNCHANGED <<input, padded>>

\* lines 20-21: a negative count cast to usize asks for about 2^64 bytes,
\* and the Vec's growth fails
ExtendZeros ==
    /\ sha.pc = "sized"
    /\ LET byte_padding_needed == TruncDiv(sha.padding_needed, 8) IN
       IF byte_padding_needed < 0
       THEN /\ sha' = [sha EXCEPT !.pc = "panic"]
            /\ UNCHANGED padded
       ELSE /\ sha' = [sha EXCEPT !.pc = "zeroed"]
            /\ padded' = padded \o Repeat(0, byte_padding_needed)
    /\ UNCHANGED input

\* line 22
AppendLength ==
    /\ sha.pc = "zeroed"
    /\ padded' = padded \o to_be_bytes(sha.message_len_in_bits, UsizeBytes)
    /\ sha' = [sha EXCEPT !.pc = "padded"]
    /\ UNCHANGED input

\* lines 24-30: the buffer as u32 words, hashed in chunks of exactly 16
\* words; chunks_exact leaves a shorter tail out
Chunks ==
    /\ sha.pc = "padded"
    /\ sha' = [sha EXCEPT !.pc = "done"]
                @@ [chunks |-> (Len(padded) \div WordBytes) \div ChunkWords]
    /\ UNCHANGED <<input, padded>>

(***************************************************************************)
(* Specifications, one per component.                                      *)
(***************************************************************************)
CodecIdle == origin = [src |-> "none"] /\ bytes = <<>> /\ decoded = None
CmdIdle == request = [cmd |-> "none"] /\ response = None
IndexIdle == index = [keep |-> 0] /\ parsed = None
StoreIdle == dirs = {} /\ files = NoFiles
CallsIdle == prev = NoCall /\ last = NoCall /\ ncalls = 0
WalkIdle == fsys = NoFiles /\ stack = <<>> /\ walk = None /\ skipped = {} /\ events = {}
ShaIdle == input = <<>> /\ padded = <<>> /\ sha = ShaStart

InitCodec ==
    /\ origin \in CodecInputs
    /\ bytes = <<>>
    /\ decoded = None
    /\ CmdIdle /\ IndexIdle /\ StoreIdle /\ CallsIdle /\ WalkIdle /\ ShaIdle

NextCodec ==
    \/ Encode /\ UNCHANGED <<cmdVars, indexVars, storeVars, callVars, walkVars, shaVars>>
    \/ Stored /\ UNCHANGED <<cmdVars, indexVars, storeVars, callVars, walkVars, shaVars>>
    \/ Decode /\ UNCHANGED <<cmdVars, indexVars, storeVars, callVars, walkVars, shaVars>>

SpecCodec == InitCodec /\ [][NextCodec]_vars

InitCmd ==
    /\ request \in {[cmd |-> c, object |-> o, flag |-> f] :
                      c \in {"cat-file", "ls-tree"}, o \in ObjectNames, f \in BOOLEAN}
    /\ response = None
    /\ dirs = {Repeat(97, 2), Repeat(48, 2)}
    /\ files = CmdStore
    /\ CodecIdle /\ IndexIdle /\ CallsIdle /\ WalkIdle /\ ShaIdle

NextCmd ==
    \/ CatFile /\ UNCHANGED <<codecVars, indexVars, callVars, walkVars, shaVars>>
    \/ LsTree /\ UNCHANGED <<codecVars, indexVars, callVars, walkVars, shaVars>>

SpecCmd == InitCmd /\ [][NextCmd]_vars

InitStore ==
    /\ StoreIdle /\ CallsIdle
    /\ CodecIdle /\ CmdIdle /\ IndexIdle /\ WalkIdle /\ ShaIdle

NextStore ==
    \/ Put /\ UNCHANGED <<codecVars, cmdVars, indexVars, walkVars, shaVars>>
    \/ Get /\ UNCHANGED <<codecVars, cmdVars, indexVars, walkVars, shaVars>>

SpecStore == InitStore /\ [][NextStore]_vars

InitTree ==
    /\ fsys \in WorkDirs
    /\ stack = <<>> /\ walk = None /\ skipped = {} /\ events = {}
    /\ StoreIdle
    /\ CodecIdle /\ CmdIdle /\ IndexIdle /\ CallsIdle /\ ShaIdle

NextTree ==
    \/ OpenRoot /\ UNCHANGED <<codecVars, cmdVars, indexVars, callVars, shaVars>>
    \/ OpenRootFails /\ UNCHANGED <<codecVars, cmdVars, indexVars, callVars, shaVars>>
    \/ EntryError /\ UNCHANGED <<codecVars, cmdVars, indexVars, callVars, shaVars>>
    \/ EntryNotUtf8 /\ UNCHANGED <<codecVars, cmdVars, indexVars, callVars, shaVars>>
    \/ EntryHidden /\ UNCHANGED <<codecVars, cmdVars, indexVars, callVars, shaVars>>
    \/ FileReadFails /\ UNCHANGED <<codecVars, cmdVars, indexVars, callVars, shaVars>>
    \/ VisitFile /\ UNCHANGED <<codecVars, cmdVars, indexVars, callVars, shaVars>>
    \/ SubdirReadFails /\ UNCHANGED <<codecVars, cmdVars, indexVars, callVars, shaVars>>
    \/ EnterSubdir /\ UNCHANGED <<codecVars, cmdVars, indexVars, callVars, shaVars>>
    \/ CloseDir /\ UNCHANGED <<codecVars, cmdVars, indexVars, callVars, shaVars>>

SpecTree == InitTree /\ [][NextTree]_vars

InitIndex ==
    /\ index \in IndexFiles
    /\ parsed = None
    /\ CodecIdle /\ CmdIdle /\ StoreIdle /\ CallsIdle /\ WalkIdle /\ ShaIdle

NextIndex ==
    ReadIndex /\ UNCHANGED <<codecVars, cmdVars, storeVars, callVars, walkVars, shaVars>>

SpecIndex == InitIndex /\ [][NextIndex]_vars

InitSha1 ==
    /\ input \in Messages
    /\ padded = <<>>
    /\ sha = ShaStart
    /\ CodecIdle /\ CmdIdle /\ IndexIdle /\ StoreIdle /\ CallsIdle /\ WalkIdle

NextSha1 ==
    \/ PushMarker /\ UNCHANGED <<codecVars, cmdVars, indexVars, storeVars, callVars, walkVars>>
    \/ PaddingNeeded /\ UNCHANGED <<codecVars, cmdVars, indexVars, storeVars, callVars, walkVars>>
    \/ ExtendZeros /\ UNCHANGED <<codecVars, cmdVars, indexVars, storeVars, callVars, walkVars>>
    \/ AppendLength /\ UNCHANGED <<codecVars, cmdVars, indexVars, storeVars, callVars, walkVars>>
    \/ Chunks /\ UNCHANGED <<codecVars, cmdVars, indexVars, storeVars, callVars, walkVars>>

SpecSha1 == InitSha1 /\ [][NextSha1]_vars

(***************************************************************************)
(* Properties.                                                             *)
(***************************************************************************)

\* C1 (SpecCodec): a sorted, NUL-free entry list E, the empty list included,
\* that is encoded by encode_tree and decoded again comes back as Ok with
\* entries equal to E: same modes, names and 20-byte hashes, in E's order.
C1_TreeRoundTrip ==
    (origin.src = "tree" /\ decoded.tag # "None")
        => decoded = Ok(Tree(origin.entries))

WellFramed(o) == o.nul /\ o.size = Decimal(Len(o.payload))

\* C2 (SpecCodec): decoding a stored object tagged commit or tag, its size
\* field and payload well-formed, returns an error value: no panic, no object.
C2_UnsupportedKindIsError ==
    (origin.src = "raw" /\ origin.kind \in {KindCommit, KindTag} /\ WellFramed(origin)
     /\ decoded.tag # "None")
        => decoded.tag = "Err"

\* the bytes between the first space and the next NUL (or the end)
SizeField(b) ==
    LET rest == Drop(b, PositionIn(b, {SP}))
        nul == PositionIn(rest, {NUL})
    IN  IF nul = 0 THEN rest ELSE Take(rest, nul - 1)

MalformedSize(b) ==
    /\ PositionIn(b, {SP}) > 0
    /\ LET rest == Drop(b, PositionIn(b, {SP}))
           field == SizeField(b)
       IN  \/ PositionIn(rest, {NUL}) = 0
           \/ field = <<>>
           \/ \E i \in 1..Len(field) : ~IsAsciiDigit(field[i])
           \/ Len(StripZeros(field)) > 20
           \/ (Len(StripZeros(field)) = 20 /\ BytesLess(U64MaxDigits, StripZeros(field)))

\* C3 (SpecCodec): bytes whose size field is malformed (a non-digit byte, no
\* terminating NUL, empty, or too large for 64 bits) decode to an error
\* value, never to a panic or an object.
C3_MalformedSizeIsError ==
    (bytes # <<>> /\ decoded.tag # "None" /\ MalformedSize(bytes))
        => decoded.tag = "Err"

WellFormedName(o) == Len(o) = 40 /\ \A i \in 1..Len(o) : IsHexChar(o[i])

MalformedNameErrors ==
    {"InvalidObjectName", "InvalidHash: OddLength", "InvalidHash: InvalidHexCharacter"}

\* C4 (SpecCmd): on cat-file and on ls-tree, an object name that is not
\* exactly 40 hexadecimal characters gets a malformed-input error, without a
\* panic and before any file of the store is opened; a name of 40 hexadecimal
\* characters, in any case, gets as far as the file at its lowercase path.
C4_DigestValidated ==
    (response.tag = "Done" /\ request.flag)
        => IF WellFormedName(request.object)
           THEN response.opened
           ELSE /\ response.res.tag = "Err"
                /\ response.res.error \in MalformedNameErrors
                /\ ~response.opened

\* C5 (SpecTree): a child whose entry the iterator fails on, or whose file
\* contents cannot be read, is skipped and the walk goes on to a tree digest;
\* the call fails only when a directory it was asked to walk cannot be read
\* (or the store cannot be written).
C5_ChildFailureSkipped ==
    walk.tag = "Err" => events \cap {"root_read_dir", "child_read_dir", "store"} # {}

\* C6 (SpecIndex): on a whole index file with a good signature the parser
\* never pushes more entries than the header declares, returns Ok exactly
\* when it pushed as many as declared and MissingEntries otherwise, and a
\* file of N declared entries followed by further bytes parses to those N.
C6_ParsesDeclaredEntries ==
    (parsed.tag = "Done" /\ index.keep = 0 /\ index.cut = 0 /\ index.signature = Signature)
        => /\ parsed.got <= index.declared
           /\ (parsed.res.tag = "Ok") <=> (parsed.got = index.declared)
           /\ parsed.got # index.declared
                 => parsed.res = Err([kind |-> "MissingEntries",
                                      expected |-> index.declared, got |-> parsed.got])
           /\ Len(index.paths) = index.declared
                 => parsed.res.tag = "Ok" /\ parsed.got = index.declared

\* two puts in a row of one object, write = true, the first returning a
\* digest and no I/O call of the second failing
PutTwice ==
    /\ prev.op = "put" /\ last.op = "put"
    /\ prev.object = last.object
    /\ prev.write /\ last.write
    /\ prev.res.tag = "Ok"
    /\ last.fault = "none"

FilesOf(object) == {q \in DOMAIN files : files[q].data = Encoded(object)}

\* C7 (SpecStore): hash_git_object(o, true) called twice in a row returns
\* the same digest both times, the second call succeeds, and after it the
\* store holds exactly one file for o, at the digest's path, with the
\* contents it had after the first call.
C7_IdempotentPut ==
    PutTwice
        => /\ last.res = prev.res
           /\ FilesOf(last.object) = {ObjectPath(last.res.value)}
           /\ files = prev.files
           /\ dirs = prev.dirs

C7_Witness == PutTwice /\ ~prev.existed /\ last.existed

\* the digest of the tree for `path`, from the working directory alone: its
\* visible children that were not skipped for an iterator error, by name
RECURSIVE Ascending(_)
Ascending(names) ==
    IF names = {} THEN <<>>
    ELSE LET least == CHOOSE m \in names : \A k \in names : BytesLeq(m, k)
         IN  <<least>> \o Ascending(names \ {least})

RECURSIVE TreeDigest(_)
TreeDigest(path) ==
    LET names == Ascending({n \in ChildNames(path) :
                              n[1] # 46 /\ Append(path, n) \notin skipped})
        entry(n) == LET node == fsys[Append(path, n)] IN
                    TreeEntry(node.mode, n,
                              IF node.kind = "file" THEN Sha1(FrameBlob(node.content))
                              ELSE TreeDigest(Append(path, n)))
    IN  Sha1(FrameTree([i \in 1..Len(names) |-> entry(names[i])]))

\* C8 (SpecTree): the root digest read_tree_from_dir returns is a function
\* of the directory's visible children (names, modes, nesting, contents)
\* alone: it is the same in whatever order each directory was enumerated,
\* and entries whose name starts with '.' do not enter it.
C8_OrderIndependent ==
    walk.tag = "Ok" => walk.value.hash = TreeDigest(<<>>)

C8_Witness ==
    /\ walk.tag = "Ok"
    /\ {"reordered", "hidden"} \subseteq events
    /\ Len(walk.value.entries) >= 2

Complete(q) == files[q].complete /\ q = ObjectPath(Sha1(files[q].data))

\* C9 (SpecStore): after any sequence of puts, failed ones included, every
\* object file of the store holds the complete encoding of the object with
\* that digest; so a get that follows a put which found the file already
\* there returns the blob that was put.
C9_StoreIntegrity ==
    /\ \A q \in DOMAIN files : Complete(q)
    /\ (/\ prev.op = "put" /\ prev.write /\ prev.existed /\ prev.res.tag = "Ok"
        /\ prev.object.kind = "Blob"
        /\ last.op = "get" /\ last.object = prev.object)
           => last.res = Ok(prev.object)

\* the digests a stored tree refers to
TreeFiles == {q \in DOMAIN files : files[q].data[1].frame = "tree"}
Referenced(q) == {files[q].data[i].object_hash : i \in 2..Len(files[q].data)}

\* C10 (SpecTree): at every point of the walk, also after it has aborted,
\* every tree object file in the store refers only to digests whose object
\* files are in the store: a tree is written after its children.
C10_BottomUp ==
    \A q \in TreeFiles : \A d \in Referenced(q) : ObjectPath(d) \in DOMAIN files

C10_Witness ==
    /\ walk.tag = "Err"
    /\ \E q \in TreeFiles :
          \E d \in Referenced(q) : ObjectPath(d) \in TreeFiles

\* the value of a byte string read as a big-endian number
RECURSIVE BigEndian(_)
BigEndian(s) ==
    IF s = <<>> THEN 0 ELSE BigEndian(SubSeq(s, 1, Len(s) - 1)) * 256 + s[Len(s)]

\* the smallest z in 0..63 with n + 1 + z congruent to 56 mod 64
ZeroBytes(n) ==
    CHOOSE z \in 0..63 :
        /\ (n + 1 + z) % 64 = 56
        /\ \A y \in 0..(z - 1) : (n + 1 + y) % 64 # 56

\* blocks hashed for n bytes: one more when 0x80 lands past the 448-bit mark
Blocks(n) == n \div 64 + 1 + (IF n % 64 \in 56..63 THEN 1 ELSE 0)

\* the buffer is the message, 0x80, ZeroBytes(n) zeros, the bit length in 8 bytes
PaddedAsSpecified ==
    LET n == Len(input)
        z == ZeroBytes(n) IN
    /\ Len(padded) = n + 1 + z + 8
    /\ SubSeq(padded, 1, n) = input
    /\ padded[n + 1] = 128
    /\ \A i \in (n + 2)..(n + 1 + z) : padded[i] = 0
    /\ BigEndian(SubSeq(padded, n + z + 2, n + z + 9)) = 8 * n
    /\ Len(padded) > 0
    /\ Len(padded) = 64 * Blocks(n)

\* C11 (SpecSha1): for every message length n, sha1 never fails while padding;
\* padding_needed is a non-negative multiple of 8 bits; the padded buffer is
\* the message, one 0x80 byte, z zero bytes with z the smallest number in
\* 0..63 making n + 1 + z congruent to 56 mod 64, and the bit length in 8
\* big-endian bytes; its length is a positive multiple of 64, with one more
\* block when n mod 64 is in 56..63; and every byte of it is hashed.
C11_PaddingArithmetic ==
    /\ sha.pc # "panic"
    /\ sha.pc \in {"sized", "zeroed", "padded", "done"} =>
          sha.padding_needed >= 0 /\ sha.padding_needed % 8 = 0
    /\ sha.pc \in {"padded", "done"} => PaddedAsSpecified
    /\ sha.pc = "done" => sha.chunks = Blocks(Len(input))

\* a message past its first block whose 0x80 byte lands past the 448-bit
\* mark has been padded into one block more
C11_Witness ==
    /\ sha.pc = "done"
    /\ Len(input) > 64
    /\ Len(input) % 64 \in 56..63
    /\ sha.chunks = Len(input) \div 64 + 2
====
